---- MODULE Spec2Model ----
(***************************************************************************)
(* FamilyHealth: the measurement collection hook (useMeasurements) of      *)
(* src/src/hooks/useMeasurements.js, together with the remote store        *)
(* (Supabase table "measurements") it talks to.                            *)
(*                                                                         *)
(* Every asynchronous call of the hook is a record in `inflight`: the      *)
(* synchronous prefix of the call creates it (phase "sent"), the remote    *)
(* store answers it (phase "ok") or the request fails, and the continuation *)
(* after the `await` consumes it.  React applies the state updates of one  *)
(* continuation in one batch, so a continuation is one action.             *)
(***************************************************************************)
EXTENDS Integers, Sequences, FiniteSets, TLC

\* ---------------------------------------------------------------- bounds
MaxId == 3            \* ids the remote store can hand out
MaxInit == 2          \* records in the remote store at start-up
MaxInFlight == 2      \* calls awaiting their response at one time
Limit == 2            \* page size handed to the hook (limit = PAGE_SIZE)
MaxCalls == 3         \* calls issued over one run
MaxChartLen == 3      \* records handed to the chart transform
MaxInstant == 3       \* measured_at instants 0..MaxInstant of the chart's records
MaxRenders == 2       \* renders that call the chart transform on the same arguments
MaxAuthEvents == 3    \* auth events and refreshProfile calls over one run

Users == {"A", "B"}
Timestamps == {1, 2}   \* measured_at: an earlier and a later instant
NoUser == "none"      \* targetUserId undefined
Null == "null"
ErrMessages == {"", "remote error"}    \* err?.message; "" stands for a missing message
DefaultError == "Error al cargar las mediciones"
NoRecord == [id |-> 0, user_id |-> NoUser, measured_at |-> 0]

VARIABLES
    remote,         \* rows of the remote table, in the order the store returns them (measured_at descending)
    nextId,         \* next id the remote store assigns
    targetUserId,   \* owner prop of the hook
    measurements,   \* loaded sequence
    totalCount,
    isLoading,
    isLoadingMore,
    error,
    pageRef,        \* pagination cursor kept in a ref (pages consumed)
    page,           \* pagination cursor kept in React state (earlier version of the hook)
    hasMore,        \* derived at every render
    latestMeasurement,
    autoFetch,      \* autoFetch prop of the hook
    inflight,       \* calls whose continuation has not run yet, in invocation order
    started,        \* number of calls issued so far
    outcome,        \* how the most recently settled call ended for its caller
    chartArgs,      \* arguments of the chart transform: the measurements and the limit
    chartData,      \* what the chart transform gave back
    chartCalls,     \* the chart transforms called so far on these arguments, in order
    session,        \* AuthProvider: session state (the version with a profile effect), a user id or null
    user,           \* AuthProvider: user state, a user id or null
    profile,        \* AuthProvider: profile state, the id of the profile row or null
    loading,        \* AuthProvider: loading state
    pendingAuth,    \* AuthProvider: promises whose continuation has not run yet
    authEvents,     \* auth events delivered and refreshProfile calls made so far
    routeView       \* what PrivateRoute returned at the last render

vars == <<remote, nextId, targetUserId, measurements, totalCount, isLoading,
          isLoadingMore, error, pageRef, page, hasMore, latestMeasurement, autoFetch, inflight,
          started, outcome, chartArgs, chartData, chartCalls,
          session, user, profile, loading, pendingAuth, authEvents, routeView>>

\* the chart transform is no part of the hook: the hook's steps leave it alone
chartVars == <<chartArgs, chartData, chartCalls>>

\* the auth context is no part of the hook either
authVars == <<session, user, profile, loading, pendingAuth, authEvents, routeView>>

hookState == <<measurements, totalCount, isLoading, isLoadingMore, error, pageRef, page>>

Min(a, b) == IF a < b THEN a ELSE b
Max(a, b) == IF a > b THEN a ELSE b

\* -------------------------------------------------------- remote store
\* .eq('user_id', targetUserId)
OwnerRows(store, u) == SelectSeq(store, LAMBDA r : r.user_id = u)

\* .range(from, to): rows from..to of the ordered answer, both inclusive, 0-based
Range(rows, from, to) == SubSeq(rows, from + 1, Min(to + 1, Len(rows)))

\* .order('measured_at', { ascending: false })
NewestFirst(rows) == \A i \in 1..Len(rows) - 1 : rows[i].measured_at >= rows[i + 1].measured_at

\* .insert(payload): the stored row takes a place the ordering allows
InsertAt(store, r, k) == SubSeq(store, 1, k - 1) \o <<r>> \o SubSeq(store, k, Len(store))

\* .delete().eq('id', measurementId)
DeleteId(store, id) == SelectSeq(store, LAMBDA r : r.id # id)

\* ------------------------------------------------------- derived values
MutHasMoreOf(m, t) == Len(m) <= t

HasMoreOf(m, t) == Len(m) < t

LatestOf(m) == IF Len(m) > 0 THEN m[1] ELSE NoRecord

\* prev.filter((m) => m.id !== measurementId) finds a record to drop
HasId(m, id) == \E j \in 1..Len(m) : m[j].id = id

\* every render recomputes the derived values from the new state
Render ==
    /\ hasMore' = HasMoreOf(measurements', totalCount')
    /\ latestMeasurement' = LatestOf(measurements')

\* ------------------------------------------------------------ the calls
Call(op, reset, currentPage, owner, arg) ==
    [op |-> op, reset |-> reset, currentPage |-> currentPage, user |-> owner, arg |-> arg,
     phase |-> "sent", data |-> <<>>, count |-> 0]

Remove(s, i) == SubSeq(s, 1, i - 1) \o SubSeq(s, i + 1, Len(s))

NoOutcome == [op |-> "none", status |-> "none"]

\* the chart transform has not been called
\* a JavaScript value: null, undefined, an array with its items, a number
JsNull == [type |-> "null", items |-> <<>>]

JsUndefined == [type |-> "undefined", items |-> <<>>]

JsArray(items) == [type |-> "array", items |-> items]

JsNoNumber == [type |-> "undefined", value |-> 0]

JsNumber(n) == [type |-> "number", value |-> n]

NoChartArgs == [measurements |-> JsArray(<<>>), max |-> JsNoNumber]

NoChartData == [status |-> "idle", points |-> <<>>]

\* a promise of the auth context: getSession, or a fetchProfile(uid) awaited by the
\* getSession continuation, the auth callback, the profile effect or refreshProfile
Pending(kind, uid) == [kind |-> kind, uid |-> uid, mounted |-> TRUE]

\* PrivateRoute({ children }) with isAuthenticated = !!user
MutPrivateRoute(isAuthenticated, isLoading_) ==
    IF ~isAuthenticated THEN "navigate" ELSE IF isLoading_ THEN "spinner" ELSE "children"

PrivateRoute(isAuthenticated, isLoading_) ==
    IF isLoading_ THEN "spinner" ELSE IF ~isAuthenticated THEN "navigate" ELSE "children"

\* useState initial values of AuthProvider; the mount effect has called getSession
AuthInit ==
    /\ session = Null
    /\ user = Null
    /\ profile = Null
    /\ loading = TRUE
    /\ pendingAuth = <<Pending("getSession", Null)>>
    /\ authEvents = 0
    /\ routeView = PrivateRoute(FALSE, TRUE)

\* pagination range of one fetch
FromOf(currentPage) == currentPage * Limit

MutToOf(from) == from + Limit

ToOf(from) == from + Limit - 1

\* --------------------------------------------------- fetchMeasurements
\* the synchronous part of fetchMeasurements({ reset }) for owner u, up to the await
FetchStart(reset, u, currentPage) ==
    /\ Len(inflight) < MaxInFlight
    /\ started < MaxCalls
    /\ started' = started + 1
    /\ isLoading' = (IF reset THEN TRUE ELSE isLoading)
    /\ isLoadingMore' = (IF reset THEN isLoadingMore ELSE TRUE)
    /\ error' = Null
    /\ inflight' = Append(inflight, Call("fetch", reset, IF reset THEN 0 ELSE currentPage, u, NoRecord))
    /\ UNCHANGED <<measurements, totalCount, remote, nextId, outcome>>

\* fetchMeasurements: without an owner the call returns at once
FetchMeasurements(reset, u, currentPage) ==
    IF u = NoUser
    THEN UNCHANGED <<measurements, totalCount, isLoading, isLoadingMore, error,
                     inflight, started, remote, nextId, outcome>>
    ELSE FetchStart(reset, u, currentPage)

\* refetch: () => { pageRef.current = 0; fetchMeasurements({ reset: true }) }
Refetch ==
    /\ pageRef' = 0
    /\ FetchMeasurements(TRUE, targetUserId, 0)
    /\ UNCHANGED <<targetUserId, autoFetch, page>>
    /\ Render

\* fetchMore: () => fetchMeasurements({ reset: false })
FetchMore ==
    /\ FetchMeasurements(FALSE, targetUserId, pageRef)
    /\ UNCHANGED <<pageRef, page, targetUserId, autoFetch>>
    /\ Render

\* the owner prop changes and the auto-fetch effect runs
ChangeUser(u) ==
    /\ u # targetUserId
    /\ targetUserId' = u
    /\ UNCHANGED autoFetch
    /\ IF autoFetch /\ u # NoUser
       THEN pageRef' = 0 /\ FetchMeasurements(TRUE, u, 0) /\ UNCHANGED page
       ELSE UNCHANGED <<pageRef, page, measurements, totalCount, isLoading, isLoadingMore,
                        error, inflight, started, remote, nextId, outcome>>
    /\ Render

\* the remote store answers a fetch: one page of the owner's rows and their exact count
ServeFetch(i) ==
    LET c == inflight[i]
        rows == OwnerRows(remote, c.user)
        from == FromOf(c.currentPage)
    IN  /\ c.op = "fetch" /\ c.phase = "sent"
        /\ inflight' = [inflight EXCEPT ![i] =
                 [c EXCEPT !.phase = "ok", !.data = Range(rows, from, ToOf(from)), !.count = Len(rows)]]
        /\ UNCHANGED <<remote, nextId, targetUserId, measurements, totalCount, isLoading,
                       isLoadingMore, error, pageRef, page, hasMore, latestMeasurement, autoFetch, started, outcome>>

\* continuation of fetchMeasurements after a successful answer
FetchSuccess(i) ==
    LET c == inflight[i]
    IN  /\ c.op = "fetch" /\ c.phase = "ok"
        /\ totalCount' = c.count
        /\ IF c.reset
           THEN measurements' = c.data /\ pageRef' = 1
           ELSE measurements' = measurements \o c.data /\ pageRef' = c.currentPage + 1
        /\ isLoading' = FALSE
        /\ isLoadingMore' = FALSE
        /\ inflight' = Remove(inflight, i)
        /\ outcome' = [op |-> "fetch", status |-> "resolved"]
        /\ UNCHANGED <<error, remote, nextId, targetUserId, autoFetch, started, page>>
        /\ Render

MutErrorText(msg) == IF msg = "" THEN Null ELSE msg

\* err?.message || 'Error al cargar las mediciones'
ErrorText(msg) == IF msg = "" THEN DefaultError ELSE msg

\* continuation of fetchMeasurements when the request fails (network or remote
\* error, the store is not changed) with the error msg: catch, then finally
FetchFailure(i, msg) ==
    LET c == inflight[i]
    IN  /\ c.op = "fetch" /\ c.phase = "sent"
        /\ error' = ErrorText(msg)
        /\ isLoading' = FALSE
        /\ isLoadingMore' = FALSE
        /\ inflight' = Remove(inflight, i)
        /\ outcome' = [op |-> "fetch", status |-> "resolved"]
        /\ UNCHANGED <<measurements, totalCount, pageRef, page, remote, nextId, targetUserId, autoFetch, started>>
        /\ Render

\* ------------------------------- fetchMeasurements, cursor in React state
\* The earlier version of the hook keeps the cursor in `page`; fetchMeasurements
\* is rebuilt whenever page changes, and the auto-fetch effect depends on it.

\* refetch: () => fetchMeasurements({ reset: true })
RefetchState ==
    /\ FetchMeasurements(TRUE, targetUserId, 0)
    /\ UNCHANGED <<pageRef, page, targetUserId, autoFetch>>
    /\ Render

\* fetchMore: () => fetchMeasurements({ reset: false })
FetchMoreState ==
    /\ FetchMeasurements(FALSE, targetUserId, page)
    /\ UNCHANGED <<pageRef, page, targetUserId, autoFetch>>
    /\ Render

\* the owner prop changes and the auto-fetch effect runs
ChangeUserState(u) ==
    /\ u # targetUserId
    /\ targetUserId' = u
    /\ UNCHANGED <<autoFetch, pageRef, page>>
    /\ IF autoFetch /\ u # NoUser
       THEN FetchMeasurements(TRUE, u, 0)
       ELSE UNCHANGED <<measurements, totalCount, isLoading, isLoadingMore,
                        error, inflight, started, remote, nextId, outcome>>
    /\ Render

MutFetchSuccessState(i) ==
    LET c == inflight[i]
        newPage == IF c.reset THEN 1 ELSE c.currentPage + 1
        rerun == newPage # page /\ autoFetch /\ targetUserId # NoUser
    IN  /\ c.op = "fetch" /\ c.phase = "ok"
        /\ totalCount' = c.count
        /\ measurements' = (IF c.reset THEN c.data ELSE measurements \o c.data)
        /\ page' = newPage
        /\ isLoadingMore' = FALSE
        /\ isLoading' = rerun
        /\ error' = (IF rerun THEN Null ELSE error)
        /\ inflight' = (IF rerun
                        THEN Append(Remove(inflight, i), Call("fetch", TRUE, 0, targetUserId, NoRecord))
                        ELSE Remove(inflight, i))
        /\ outcome' = [op |-> "fetch", status |-> "resolved"]
        /\ UNCHANGED <<pageRef, remote, nextId, targetUserId, autoFetch, started>>
        /\ Render

\* continuation of fetchMeasurements after a successful answer; when it changes
\* page, the render that follows rebuilds fetchMeasurements and the auto-fetch
\* effect runs again: a reset load is issued
FetchSuccessState(i) ==
    LET c == inflight[i]
        newPage == IF c.reset THEN 1 ELSE page + 1
        rerun == newPage # page /\ autoFetch /\ targetUserId # NoUser
    IN  /\ c.op = "fetch" /\ c.phase = "ok"
        /\ totalCount' = c.count
        /\ measurements' = (IF c.reset THEN c.data ELSE measurements \o c.data)
        /\ page' = newPage
        /\ isLoadingMore' = FALSE
        /\ isLoading' = rerun
        /\ error' = (IF rerun THEN Null ELSE error)
        /\ inflight' = (IF rerun
                        THEN Append(Remove(inflight, i), Call("fetch", TRUE, 0, targetUserId, NoRecord))
                        ELSE Remove(inflight, i))
        /\ outcome' = [op |-> "fetch", status |-> "resolved"]
        /\ UNCHANGED <<pageRef, remote, nextId, targetUserId, autoFetch, started>>
        /\ Render

\* ------------------------------------------------------ addMeasurement
\* addMeasurement(payload) up to the await; the form fills user_id with the owner
AddMeasurement(at) ==
    /\ targetUserId # NoUser
    /\ Len(inflight) < MaxInFlight
    /\ started < MaxCalls
    /\ started' = started + 1
    /\ nextId + Cardinality({j \in 1..Len(inflight) :
                    inflight[j].op = "insert" /\ inflight[j].phase = "sent"}) <= MaxId
    /\ inflight' = Append(inflight, Call("insert", FALSE, 0, targetUserId,
                        [id |-> 0, user_id |-> targetUserId, measured_at |-> at]))
    /\ UNCHANGED <<remote, nextId, targetUserId, measurements, totalCount, isLoading,
                   isLoadingMore, error, pageRef, page, hasMore, latestMeasurement, autoFetch, outcome>>

\* the remote store inserts the row, assigns its id and echoes the stored row
ServeInsert(i, k) ==
    LET c == inflight[i]
        row == [c.arg EXCEPT !.id = nextId]
    IN  /\ c.op = "insert" /\ c.phase = "sent"
        /\ k \in 1..Len(remote) + 1
        /\ NewestFirst(InsertAt(remote, row, k))
        /\ remote' = InsertAt(remote, row, k)
        /\ nextId' = nextId + 1
        /\ inflight' = [inflight EXCEPT ![i] = [c EXCEPT !.phase = "ok", !.data = <<row>>]]
        /\ UNCHANGED <<targetUserId, measurements, totalCount, isLoading, isLoadingMore,
                       error, pageRef, page, hasMore, latestMeasurement, autoFetch, started, outcome>>

MutAddSorted(i) ==
    LET c == inflight[i]
        newer == Cardinality({j \in 1..Len(measurements) :
                                measurements[j].measured_at > c.data[1].measured_at})
    IN  /\ c.op = "insert" /\ c.phase = "ok"
        /\ measurements' = InsertAt(measurements, c.data[1], newer + 1)
        /\ totalCount' = totalCount + 1
        /\ inflight' = Remove(inflight, i)
        /\ outcome' = [op |-> "insert", status |-> "resolved"]
        /\ UNCHANGED <<isLoading, isLoadingMore, error, pageRef, page, remote, nextId,
                       targetUserId, autoFetch, started>>
        /\ Render

MutAddSuccess(i) ==
    LET c == inflight[i]
    IN  /\ c.op = "insert" /\ c.phase = "ok"
        /\ measurements' = measurements \o c.data
        /\ totalCount' = totalCount + 1
        /\ inflight' = Remove(inflight, i)
        /\ outcome' = [op |-> "insert", status |-> "resolved"]
        /\ UNCHANGED <<isLoading, isLoadingMore, error, pageRef, page, remote, nextId,
                       targetUserId, autoFetch, started>>
        /\ Render

\* continuation of addMeasurement: prepend the echoed row, count it
AddSuccess(i) ==
    LET c == inflight[i]
    IN  /\ c.op = "insert" /\ c.phase = "ok"
        /\ measurements' = c.data \o measurements
        /\ totalCount' = totalCount + 1
        /\ inflight' = Remove(inflight, i)
        /\ outcome' = [op |-> "insert", status |-> "resolved"]
        /\ UNCHANGED <<isLoading, isLoadingMore, error, pageRef, page, remote, nextId,
                       targetUserId, autoFetch, started>>
        /\ Render

\* the insert fails, the store is not changed: if (error) throw error
AddFailure(i) ==
    LET c == inflight[i]
    IN  /\ c.op = "insert" /\ c.phase = "sent"
        /\ inflight' = Remove(inflight, i)
        /\ outcome' = [op |-> "insert", status |-> "rejected"]
        /\ UNCHANGED <<measurements, totalCount, isLoading, isLoadingMore, error, pageRef, page,
                       remote, nextId, targetUserId, autoFetch, started>>
        /\ Render

\* --------------------------------------------------- deleteMeasurement
\* deleteMeasurement(measurementId) up to the await
DeleteMeasurement(id) ==
    /\ Len(inflight) < MaxInFlight
    /\ started < MaxCalls
    /\ started' = started + 1
    /\ inflight' = Append(inflight, Call("delete", FALSE, 0, targetUserId,
                        [id |-> id, user_id |-> NoUser, measured_at |-> 0]))
    /\ UNCHANGED <<remote, nextId, targetUserId, measurements, totalCount, isLoading,
                   isLoadingMore, error, pageRef, page, hasMore, latestMeasurement, autoFetch, outcome>>

\* the remote store deletes the row with that id, if there is one
ServeDelete(i) ==
    LET c == inflight[i]
    IN  /\ c.op = "delete" /\ c.phase = "sent"
        /\ remote' = DeleteId(remote, c.arg.id)
        /\ inflight' = [inflight EXCEPT ![i] = [c EXCEPT !.phase = "ok"]]
        /\ UNCHANGED <<nextId, targetUserId, measurements, totalCount, isLoading, isLoadingMore,
                       error, pageRef, page, hasMore, latestMeasurement, autoFetch, started, outcome>>

MutDeleteSuccess(i) ==
    LET c == inflight[i]
    IN  /\ c.op = "delete" /\ c.phase = "ok"
        /\ measurements' = (IF HasId(measurements, c.arg.id)
                            THEN SelectSeq(measurements, LAMBDA m : m.id # c.arg.id)
                            ELSE SubSeq(measurements, 2, Len(measurements)))
        /\ totalCount' = Max(totalCount - 1, 0)
        /\ inflight' = Remove(inflight, i)
        /\ outcome' = [op |-> "delete", status |-> "resolved"]
        /\ UNCHANGED <<isLoading, isLoadingMore, error, pageRef, page, remote, nextId,
                       targetUserId, autoFetch, started>>
        /\ Render

\* continuation of deleteMeasurement: filter the id out, count down to 0 at most
DeleteSuccess(i) ==
    LET c == inflight[i]
    IN  /\ c.op = "delete" /\ c.phase = "ok"
        /\ measurements' = SelectSeq(measurements, LAMBDA m : m.id # c.arg.id)
        /\ totalCount' = Max(totalCount - 1, 0)
        /\ inflight' = Remove(inflight, i)
        /\ outcome' = [op |-> "delete", status |-> "resolved"]
        /\ UNCHANGED <<isLoading, isLoadingMore, error, pageRef, page, remote, nextId,
                       targetUserId, autoFetch, started>>
        /\ Render

MutDeleteFailure(i) ==
    LET c == inflight[i]
    IN  /\ c.op = "delete" /\ c.phase = "sent"
        /\ measurements' = SelectSeq(measurements, LAMBDA m : m.id # c.arg.id)
        /\ inflight' = Remove(inflight, i)
        /\ outcome' = [op |-> "delete", status |-> "rejected"]
        /\ UNCHANGED <<totalCount, isLoading, isLoadingMore, error, pageRef, page,
                       remote, nextId, targetUserId, autoFetch, started>>
        /\ Render

\* the delete fails, the store is not changed: if (error) throw error
DeleteFailure(i) ==
    LET c == inflight[i]
    IN  /\ c.op = "delete" /\ c.phase = "sent"
        /\ inflight' = Remove(inflight, i)
        /\ outcome' = [op |-> "delete", status |-> "rejected"]
        /\ UNCHANGED <<measurements, totalCount, isLoading, isLoadingMore, error, pageRef, page,
                       remote, nextId, targetUserId, autoFetch, started>>
        /\ Render

\* ------------------------------------------------------- specification
Records(n, owners) == [id : 1..n, user_id : owners, measured_at : Timestamps]

\* the stores of n rows of these owners: ids 1..n, newest first
InitialStores(n, owners) ==
    {s \in {[i \in 1..n |-> [id |-> n + 1 - i, user_id |-> o[i], measured_at |-> t[i]]] :
                o \in [1..n -> owners], t \in [1..n -> Timestamps]} :
        /\ \A i \in 1..n : s[i] \in Records(n, owners)
        /\ NewestFirst(s)}

\* useState / useRef initial values
HookInit ==
    /\ measurements = <<>>
    /\ totalCount = 0
    /\ isLoading = FALSE
    /\ isLoadingMore = FALSE
    /\ error = Null
    /\ pageRef = 0
    /\ page = 0
    /\ hasMore = HasMoreOf(<<>>, 0)
    /\ latestMeasurement = LatestOf(<<>>)
    /\ inflight = <<>>
    /\ started = 0
    /\ outcome = NoOutcome
    /\ chartArgs = NoChartArgs
    /\ chartData = NoChartData
    /\ chartCalls = <<>>
    /\ AuthInit

\* the hook mounted with the default autoFetch before the owner is known; the
\* owner then arrives and stays
Init ==
    /\ \E n \in 0..MaxInit : remote \in InitialStores(n, {"A"}) /\ nextId = n + 1
    /\ targetUserId = NoUser
    /\ autoFetch = TRUE
    /\ HookInit

Next ==
    \/ Refetch /\ UNCHANGED <<chartVars, authVars>>
    \/ FetchMore /\ UNCHANGED <<chartVars, authVars>>
    \/ ChangeUser("A") /\ UNCHANGED <<chartVars, authVars>>
    \/ \E at \in Timestamps : AddMeasurement(at) /\ UNCHANGED <<chartVars, authVars>>
    \/ \E id \in 1..MaxId : DeleteMeasurement(id) /\ UNCHANGED <<chartVars, authVars>>
    \/ \E i \in 1..Len(inflight) : ServeFetch(i) /\ UNCHANGED <<chartVars, authVars>>
    \/ \E i \in 1..Len(inflight), k \in 1..MaxId : ServeInsert(i, k) /\ UNCHANGED <<chartVars, authVars>>
    \/ \E i \in 1..Len(inflight) : ServeDelete(i) /\ UNCHANGED <<chartVars, authVars>>
    \/ \E i \in 1..Len(inflight) : FetchSuccess(i) /\ UNCHANGED <<chartVars, authVars>>
    \/ \E i \in 1..Len(inflight), msg \in ErrMessages : FetchFailure(i, msg) /\ UNCHANGED <<chartVars, authVars>>
    \/ \E i \in 1..Len(inflight) : AddSuccess(i) /\ UNCHANGED <<chartVars, authVars>>
    \/ \E i \in 1..Len(inflight) : AddFailure(i) /\ UNCHANGED <<chartVars, authVars>>
    \/ \E i \in 1..Len(inflight) : DeleteSuccess(i) /\ UNCHANGED <<chartVars, authVars>>
    \/ \E i \in 1..Len(inflight) : DeleteFailure(i) /\ UNCHANGED <<chartVars, authVars>>

Spec == Init /\ [][Next]_vars

\* The end-to-end paging scenario: a store that does not change and holds up to
\* 2 * Limit + 1 rows of the owner (25 rows for pages of 10 in the spec), one load
\* on mount, then fetchMore calls, each awaited before the next, all answered.
SeqRecords == 2 * Limit + 1

InitSeq ==
    /\ \E n \in 0..SeqRecords : remote \in InitialStores(n, {"A"}) /\ nextId = n + 1
    /\ targetUserId = NoUser
    /\ autoFetch = TRUE
    /\ HookInit

NextSeq ==
    \/ inflight = <<>> /\ targetUserId = NoUser /\ ChangeUser("A") /\ UNCHANGED <<chartVars, authVars>>
    \/ inflight = <<>> /\ targetUserId # NoUser /\ FetchMore /\ UNCHANGED <<chartVars, authVars>>
    \/ \E i \in 1..Len(inflight) : ServeFetch(i) /\ UNCHANGED <<chartVars, authVars>>
    \/ \E i \in 1..Len(inflight) : FetchSuccess(i) /\ UNCHANGED <<chartVars, authVars>>

SpecSeq == InitSeq /\ [][NextSeq]_vars

\* the same scenario for the version of the hook that keeps the cursor in React state
NextSeqState ==
    \/ inflight = <<>> /\ targetUserId = NoUser /\ ChangeUserState("A") /\ UNCHANGED <<chartVars, authVars>>
    \/ inflight = <<>> /\ targetUserId # NoUser /\ FetchMoreState /\ UNCHANGED <<chartVars, authVars>>
    \/ \E i \in 1..Len(inflight) : ServeFetch(i) /\ UNCHANGED <<chartVars, authVars>>
    \/ \E i \in 1..Len(inflight) : FetchSuccessState(i) /\ UNCHANGED <<chartVars, authVars>>

SpecSeqState == InitSeq /\ [][NextSeqState]_vars

\* the state-cursor version with calls that may overlap: the caller does not
\* wait for a load to settle before asking for more
NextOverlapState ==
    \/ targetUserId = NoUser /\ ChangeUserState("A") /\ UNCHANGED <<chartVars, authVars>>
    \/ targetUserId # NoUser /\ FetchMoreState /\ UNCHANGED <<chartVars, authVars>>
    \/ \E i \in 1..Len(inflight) : ServeFetch(i) /\ UNCHANGED <<chartVars, authVars>>
    \/ \E i \in 1..Len(inflight) : FetchSuccessState(i) /\ UNCHANGED <<chartVars, authVars>>

SpecOverlapState == InitSeq /\ [][NextOverlapState]_vars

\* The owner prop over a session: absent before login and after logout, and another
\* member's id when the viewer switches profile.  Loads only; either value of the
\* autoFetch prop.
InitOwner ==
    /\ \E n \in 0..MaxInit : remote \in InitialStores(n, Users) /\ nextId = n + 1
    /\ targetUserId = NoUser
    /\ autoFetch \in BOOLEAN
    /\ HookInit

NextOwner ==
    \/ Refetch /\ UNCHANGED <<chartVars, authVars>>
    \/ FetchMore /\ UNCHANGED <<chartVars, authVars>>
    \/ \E u \in Users \cup {NoUser} : ChangeUser(u) /\ UNCHANGED <<chartVars, authVars>>
    \/ \E i \in 1..Len(inflight) : ServeFetch(i) /\ UNCHANGED <<chartVars, authVars>>
    \/ \E i \in 1..Len(inflight) : FetchSuccess(i) /\ UNCHANGED <<chartVars, authVars>>
    \/ \E i \in 1..Len(inflight), msg \in ErrMessages : FetchFailure(i, msg) /\ UNCHANGED <<chartVars, authVars>>

SpecOwner == InitOwner /\ [][NextOwner]_vars

\* The hook mounted with autoFetch off (as the new-measurement page mounts it): the
\* only loads are the caller's refetch calls; creates and removes may overlap them.
InitRefresh ==
    /\ \E n \in 0..MaxInit : remote \in InitialStores(n, {"A"}) /\ nextId = n + 1
    /\ targetUserId = NoUser
    /\ autoFetch = FALSE
    /\ HookInit

NextRefresh ==
    \/ Refetch /\ UNCHANGED <<chartVars, authVars>>
    \/ ChangeUser("A") /\ UNCHANGED <<chartVars, authVars>>
    \/ \E at \in Timestamps : AddMeasurement(at) /\ UNCHANGED <<chartVars, authVars>>
    \/ \E id \in 1..MaxId : DeleteMeasurement(id) /\ UNCHANGED <<chartVars, authVars>>
    \/ \E i \in 1..Len(inflight) : ServeFetch(i) /\ UNCHANGED <<chartVars, authVars>>
    \/ \E i \in 1..Len(inflight), k \in 1..MaxId : ServeInsert(i, k) /\ UNCHANGED <<chartVars, authVars>>
    \/ \E i \in 1..Len(inflight) : ServeDelete(i) /\ UNCHANGED <<chartVars, authVars>>
    \/ \E i \in 1..Len(inflight) : FetchSuccess(i) /\ UNCHANGED <<chartVars, authVars>>
    \/ \E i \in 1..Len(inflight), msg \in ErrMessages : FetchFailure(i, msg) /\ UNCHANGED <<chartVars, authVars>>
    \/ \E i \in 1..Len(inflight) : AddSuccess(i) /\ UNCHANGED <<chartVars, authVars>>
    \/ \E i \in 1..Len(inflight) : AddFailure(i) /\ UNCHANGED <<chartVars, authVars>>
    \/ \E i \in 1..Len(inflight) : DeleteSuccess(i) /\ UNCHANGED <<chartVars, authVars>>
    \/ \E i \in 1..Len(inflight) : DeleteFailure(i) /\ UNCHANGED <<chartVars, authVars>>

SpecRefresh == InitRefresh /\ [][NextRefresh]_vars

\* Calls that do not overlap: the caller awaits each call before it makes the next
NextSerial ==
    \/ inflight = <<>> /\ Refetch /\ UNCHANGED <<chartVars, authVars>>
    \/ inflight = <<>> /\ FetchMore /\ UNCHANGED <<chartVars, authVars>>
    \/ inflight = <<>> /\ ChangeUser("A") /\ UNCHANGED <<chartVars, authVars>>
    \/ inflight = <<>> /\ \E at \in Timestamps : AddMeasurement(at) /\ UNCHANGED <<chartVars, authVars>>
    \/ inflight = <<>> /\ \E id \in 1..MaxId : DeleteMeasurement(id) /\ UNCHANGED <<chartVars, authVars>>
    \/ \E i \in 1..Len(inflight) : ServeFetch(i) /\ UNCHANGED <<chartVars, authVars>>
    \/ \E i \in 1..Len(inflight), k \in 1..MaxId : ServeInsert(i, k) /\ UNCHANGED <<chartVars, authVars>>
    \/ \E i \in 1..Len(inflight) : ServeDelete(i) /\ UNCHANGED <<chartVars, authVars>>
    \/ \E i \in 1..Len(inflight) : FetchSuccess(i) /\ UNCHANGED <<chartVars, authVars>>
    \/ \E i \in 1..Len(inflight), msg \in ErrMessages : FetchFailure(i, msg) /\ UNCHANGED <<chartVars, authVars>>
    \/ \E i \in 1..Len(inflight) : AddSuccess(i) /\ UNCHANGED <<chartVars, authVars>>
    \/ \E i \in 1..Len(inflight) : AddFailure(i) /\ UNCHANGED <<chartVars, authVars>>
    \/ \E i \in 1..Len(inflight) : DeleteSuccess(i) /\ UNCHANGED <<chartVars, authVars>>
    \/ \E i \in 1..Len(inflight) : DeleteFailure(i) /\ UNCHANGED <<chartVars, authVars>>

SpecSerial == Init /\ [][NextSerial]_vars

\* ------------------------------------------------- useWeightChartData
\* A record as the chart reads it: measured_at is an instant, weight_kg is held in
\* tenths of a kilogram (700 is 70.0 kg).
InstantsPerDay == 2
Weights == {700, 710}
DefaultMax == 30

ChartRecords == [measured_at : 0..MaxInstant, weight_kg : Weights]

\* format(dateObj, "yyyy-MM-dd"): the calendar day of an instant
DayKey(t) == t \div InstantsPerDay

MutNoLength(m) == IF m.type # "array" THEN FALSE ELSE Len(m.items) = 0

\* !measurements?.length
NoLength(m) == IF m.type # "array" THEN TRUE ELSE Len(m.items) = 0

\* a default parameter value replaces undefined only
OrDefault(max) == IF max.type = "undefined" THEN DefaultMax ELSE max.value

\* Array.prototype.reverse
Reverse(s) == [i \in 1..Len(s) |-> s[Len(s) + 1 - i]]

\* Array.prototype.slice(start, end): a negative index counts from the end
SliceIndex(s, k) == IF k < 0 THEN Max(Len(s) + k, 0) ELSE Min(k, Len(s))

Slice(s, start, end) == SubSeq(s, SliceIndex(s, start) + 1, SliceIndex(s, end))

\* Array.prototype.slice(start)
SliceFrom(s, start) == SubSeq(s, SliceIndex(s, start) + 1, Len(s))

RECURSIVE Sum(_)
Sum(ws) == IF ws = <<>> THEN 0 ELSE Head(ws) + Sum(Tail(ws))

MutRoundedMean(ws) == Sum(ws) \div Len(ws)

\* Math.round((sum / length) * 10) / 10, in tenths
RoundedMean(ws) == (2 * Sum(ws) + Len(ws)) \div (2 * Len(ws))

\* the forEach over the reversed copy: byDay keeps its keys in insertion order
RECURSIVE GroupByDay(_, _)
GroupByDay(rs, byDay) ==
    IF rs = <<>> THEN byDay
    ELSE LET m == Head(rs)
             dayKey == DayKey(m.measured_at)
             has == {j \in 1..Len(byDay) : byDay[j].dayKey = dayKey}
         IN  IF has = {}
             THEN GroupByDay(Tail(rs), Append(byDay,
                      [dayKey |-> dayKey, weights |-> <<m.weight_kg>>, date |-> m.measured_at]))
             ELSE GroupByDay(Tail(rs),
                      [j \in 1..Len(byDay) |->
                          IF j \in has
                          THEN [byDay[j] EXCEPT !.weights = Append(@, m.weight_kg)]
                          ELSE byDay[j]])

DayPoint(e) ==
    [date |-> e.date, weight |-> RoundedMean(e.weights), label |-> DayKey(e.date),
     isAverage |-> Len(e.weights) > 1, count |-> Len(e.weights)]

RecordPoint(m) == [date |-> m.measured_at, weight |-> m.weight_kg, label |-> DayKey(m.measured_at)]

Returned(points) == [status |-> "returned", points |-> points]

\* spreading or iterating null or undefined throws a TypeError
Threw == [status |-> "threw", points |-> <<>>]

\* useWeightChartData(measurements, maxDays = 30), day-bucketed
WeightChartData(ms, maxDays) ==
    IF NoLength(ms) THEN Returned(<<>>)
    ELSE IF ms.type # "array" THEN Threw
    ELSE LET entries == SliceFrom(GroupByDay(Reverse(ms.items), <<>>), 0 - OrDefault(maxDays))
         IN  Returned([i \in 1..Len(entries) |-> DayPoint(entries[i])])

MutWeightChartDataSlice(ms, maxPoints) ==
    IF NoLength(ms) THEN Returned(<<>>)
    ELSE IF ms.type # "array" THEN Threw
    ELSE LET recent == Reverse(SliceFrom(ms.items, 0 - OrDefault(maxPoints)))
         IN  Returned([i \in 1..Len(recent) |-> RecordPoint(recent[i])])

\* useWeightChartData(measurements, maxPoints = 30), one point per record
WeightChartDataSlice(ms, maxPoints) ==
    IF NoLength(ms) THEN Returned(<<>>)
    ELSE IF ms.type # "array" THEN Threw
    ELSE LET recent == Reverse(Slice(ms.items, 0, OrDefault(maxPoints)))
         IN  Returned([i \in 1..Len(recent) |-> RecordPoint(recent[i])])

hookVars == <<remote, nextId, targetUserId, measurements, totalCount, isLoading,
              isLoadingMore, error, pageRef, page, hasMore, latestMeasurement, autoFetch,
              inflight, started, outcome>>

MutCallWeightChartData ==
    /\ chartData' = WeightChartData(chartArgs.measurements, chartArgs.max)
    /\ chartCalls' = Append(chartCalls, "byDay")
    /\ chartArgs' = [chartArgs EXCEPT !.measurements.items = Reverse(@)]
    /\ UNCHANGED <<hookVars, authVars>>

\* one call of the day-bucketed transform: it works on a copy, [...measurements]
CallWeightChartData ==
    /\ chartData' = WeightChartData(chartArgs.measurements, chartArgs.max)
    /\ chartCalls' = Append(chartCalls, "byDay")
    /\ UNCHANGED <<chartArgs, hookVars, authVars>>

\* one call of the slice transform: it works on a copy, [...measurements]
CallWeightChartDataSlice ==
    /\ chartData' = WeightChartDataSlice(chartArgs.measurements, chartArgs.max)
    /\ chartCalls' = Append(chartCalls, "slice")
    /\ UNCHANGED <<chartArgs, hookVars, authVars>>

\* a component calls the day-bucketed transform with its arguments
UseWeightChartData ==
    /\ chartData.status = "idle"
    /\ CallWeightChartData

\* a component calls the slice transform with its arguments
UseWeightChartDataSlice ==
    /\ chartData.status = "idle"
    /\ CallWeightChartDataSlice

\* the lists a caller can hand over: null, undefined, or up to MaxChartLen records
ChartInputs ==
    {JsNull, JsUndefined} \cup
    {JsArray(items) : items \in UNION {[1..n -> ChartRecords] : n \in 0..MaxChartLen}}

\* the limits a caller can hand over: none, negative, zero, up to past the length
ChartLimits == {JsNoNumber} \cup {JsNumber(n) : n \in 0 - 1 .. MaxChartLen + 1}

InitChart ==
    /\ remote = <<>> /\ nextId = 1
    /\ targetUserId = NoUser
    /\ autoFetch = TRUE
    /\ measurements = <<>>
    /\ totalCount = 0
    /\ isLoading = FALSE
    /\ isLoadingMore = FALSE
    /\ error = Null
    /\ pageRef = 0
    /\ page = 0
    /\ hasMore = HasMoreOf(<<>>, 0)
    /\ latestMeasurement = LatestOf(<<>>)
    /\ inflight = <<>>
    /\ started = 0
    /\ outcome = NoOutcome
    /\ chartArgs \in [measurements : ChartInputs, max : ChartLimits]
    /\ chartData = NoChartData
    /\ chartCalls = <<>>
    /\ AuthInit

NextChart ==
    \/ UseWeightChartData
    \/ UseWeightChartDataSlice

SpecChart == InitChart /\ [][NextChart]_vars

\* a component that renders again calls the same transform on the same arguments
NextChartAgain ==
    \/ /\ Len(chartCalls) < MaxRenders
       /\ \A i \in 1..Len(chartCalls) : chartCalls[i] = "byDay"
       /\ CallWeightChartData
    \/ /\ Len(chartCalls) < MaxRenders
       /\ \A i \in 1..Len(chartCalls) : chartCalls[i] = "slice"
       /\ CallWeightChartDataSlice

SpecChartAgain == InitChart /\ [][NextChartAgain]_vars

\* ------------------------------------------------------------ properties
\* the continuation of call i of kind op runs: after the store's answer when
\* phase is "ok", after a failed request when phase is "sent"
Settles(i, op, phase) ==
    /\ inflight[i].op = op
    /\ inflight[i].phase = phase
    /\ inflight' = Remove(inflight, i)

\* a call of kind op is issued in this step
Issues(op) ==
    /\ Len(inflight') = Len(inflight) + 1
    /\ inflight'[Len(inflight')].op = op

LoadInFlight == \E i \in 1..Len(inflight) : inflight[i].op = "fetch"

\* C1: every successful create grows the loaded sequence by exactly one, puts the
\* record echoed by the remote store at index 0 with the previously loaded records
\* behind it in their old order, and raises totalCount by exactly one.
C1_CreatePrepends ==
    [][\A i \in 1..Len(inflight) : Settles(i, "insert", "ok") =>
          /\ Len(measurements') = Len(measurements) + 1
          /\ measurements'[1] = inflight[i].data[1]
          /\ SubSeq(measurements', 2, Len(measurements')) = measurements
          /\ totalCount' = totalCount + 1
          /\ outcome'.status = "resolved"]_vars

C1_Witness ==
    /\ outcome = [op |-> "insert", status |-> "resolved"]
    /\ Len(measurements) >= 2
    /\ measurements[1].id = nextId - 1
    /\ totalCount >= 2

\* C2: every successful remove of an id that is in the loaded sequence shortens the
\* sequence by exactly one, leaves no record with that id, keeps the order of the
\* other records, and lowers totalCount by one, not below 0.
C2_RemoveExactlyOne ==
    [][\A i \in 1..Len(inflight) :
          (Settles(i, "delete", "ok") /\ HasId(measurements, inflight[i].arg.id)) =>
              /\ Len(measurements') = Len(measurements) - 1
              /\ ~HasId(measurements', inflight[i].arg.id)
              /\ measurements' = SelectSeq(measurements, LAMBDA m : m.id # inflight[i].arg.id)
              /\ totalCount' = Max(totalCount - 1, 0)]_vars

\* C3: once a load has settled successfully (the cursor stands at one page or more)
\* and no load is in flight, the loaded sequence is no longer than totalCount.
C3_LoadedWithinTotal ==
    (pageRef >= 1 /\ ~LoadInFlight) => Len(measurements) <= totalCount

\* C4: in every reachable state hasMore is true exactly when the loaded sequence is
\* shorter than totalCount.
C4_HasMore == hasMore <=> (Len(measurements) < totalCount)

C4_Witness ==
    /\ hasMore
    /\ Len(measurements) = Limit
    /\ totalCount > Limit
    /\ inflight = <<>>

\* C5: over a store that does not change, the load on mount followed by k awaited
\* fetchMore calls leaves exactly the first min((k+1)*Limit, T) rows of the owner's
\* newest-first rows loaded, and hasMore is true exactly when (k+1)*Limit < T.
\* (k + 1 = started: every call of the scenario is a load.)  Holds under SpecSeq,
\* fails under SpecSeqState, where the auto-fetch effect reloads after a fetchMore.
C5_Paging ==
    (inflight = <<>> /\ started >= 1) =>
        LET rows == OwnerRows(remote, targetUserId)
        IN  /\ measurements = SubSeq(rows, 1, Min(started * Limit, Len(rows)))
            /\ hasMore <=> (started * Limit < Len(rows))
            /\ totalCount = Len(rows)

\* the last page of the scenario, reached under SpecSeq
C5_Witness ==
    /\ inflight = <<>>
    /\ started = 3
    /\ Len(remote) = SeqRecords
    /\ Len(measurements) = SeqRecords
    /\ ~hasMore

\* C6: every successful reset load replaces the loaded sequence by the fetched first
\* page, of at most min(totalCount, Limit) records, takes totalCount from that same
\* answer and leaves the cursor at one page consumed.
C6_ResetLoad ==
    [][\A i \in 1..Len(inflight) : (Settles(i, "fetch", "ok") /\ inflight[i].reset) =>
          /\ measurements' = inflight[i].data
          /\ Len(measurements') <= Min(totalCount', Limit)
          /\ totalCount' = inflight[i].count
          /\ pageRef' = 1]_vars

C6_Witness ==
    /\ outcome = [op |-> "fetch", status |-> "resolved"]
    /\ inflight = <<>>
    /\ pageRef = 1
    /\ Len(measurements) = Limit
    /\ totalCount > Limit

\* C7: at most one of the two busy flags is set in any reachable state.
C7_OneBusyFlag == ~(isLoading /\ isLoadingMore)

\* C8: a busy flag is set exactly when some load still awaits its continuation.
C8_BusyIffInFlight == (isLoading \/ isLoadingMore) <=> LoadInFlight

\* C9: a failed load resolves (nothing is thrown), sets the error slot to a message
\* and leaves the loaded sequence and totalCount as they were; issuing a load
\* changes neither and clears the error slot.
C9_LoadFailureAbsorbed ==
    [][/\ \A i \in 1..Len(inflight) : Settles(i, "fetch", "sent") =>
              /\ outcome' = [op |-> "fetch", status |-> "resolved"]
              /\ error' # Null
              /\ measurements' = measurements
              /\ totalCount' = totalCount
       /\ Issues("fetch") =>
              /\ error' = Null
              /\ measurements' = measurements
              /\ totalCount' = totalCount]_vars

C9_Witness ==
    /\ outcome = [op |-> "fetch", status |-> "resolved"]
    /\ error = DefaultError
    /\ inflight = <<>>
    /\ Len(measurements) > 0
    /\ totalCount > 0

\* C10: a create or remove that fails at the remote store is thrown to the caller
\* and neither issuing it nor its failure changes the loaded sequence, totalCount,
\* the cursor, the busy flags or the error slot.
C10_MutationFailureThrown ==
    [][/\ \A i \in 1..Len(inflight) :
              (Settles(i, "insert", "sent") \/ Settles(i, "delete", "sent")) =>
                  /\ outcome' = [op |-> inflight[i].op, status |-> "rejected"]
                  /\ UNCHANGED hookState
       /\ (Issues("insert") \/ Issues("delete")) => UNCHANGED hookState]_vars

C10_Witness ==
    /\ outcome = [op |-> "delete", status |-> "rejected"]
    /\ Len(measurements) > 0
    /\ HasId(remote, measurements[1].id)
    /\ inflight = <<>>

\* C11: a fetchMore invoked while a load is in flight issues no remote fetch.
C11_LoadMoreWhileLoadingNoOp ==
    [][LoadInFlight => ~(Issues("fetch") /\ ~inflight'[Len(inflight')].reset)]_vars

\* the continuation of load i runs after the store's answer, whether or not the
\* auto-fetch effect issues a new load in the same render
SettlesLoad(i) ==
    /\ inflight[i].op = "fetch"
    /\ inflight[i].phase = "ok"
    /\ \/ inflight' = Remove(inflight, i)
       \/ /\ Len(inflight') = Len(inflight)
          /\ SubSeq(inflight', 1, Len(inflight) - 1) = Remove(inflight, i)

\* the sequence m ends with the rows of d
EndsWith(m, d) == Len(m) >= Len(d) /\ SubSeq(m, Len(m) - Len(d) + 1, Len(m)) = d

\* C12: (state-cursor version) when the answer of a fetchMore is applied after an
\* overlapping load of the same page was applied (the loaded sequence already ends
\* with the rows it fetched and the cursor has moved past the page it read), the
\* cursor ends at least two pages beyond the page fetched, so that the next
\* fetchMore skips a page, and the loaded sequence ends with that page twice.
C12_DoubleAdvance ==
    [][\A i \in 1..Len(inflight) :
          (/\ SettlesLoad(i) /\ ~inflight[i].reset
           /\ inflight[i].currentPage < page
           /\ EndsWith(measurements, inflight[i].data)) =>
              /\ page' >= inflight[i].currentPage + 2
              /\ FromOf(page') >= FromOf(inflight[i].currentPage + 1) + Limit
              /\ EndsWith(measurements', inflight[i].data \o inflight[i].data)]_vars

\* two fetchMore calls read page 1 together and both answers were applied: pages
\* 0, 1, 1 are loaded, the cursor stands at 3 and the rows of page 2 are skipped
C12_Witness ==
    LET rows == OwnerRows(remote, targetUserId)
        p0 == Range(rows, 0, Limit - 1)
        p1 == Range(rows, Limit, 2 * Limit - 1)
    IN  /\ Len(rows) = SeqRecords
        /\ page = 3
        /\ measurements = p0 \o p1 \o p1
        /\ \A i \in 1..Len(inflight) : inflight[i].reset
        /\ FromOf(page) > 2 * Limit

\* C13: with the owner absent and nothing in flight, a call of refetch or fetchMore
\* issues no fetch and changes neither the busy flags, the error slot, the loaded
\* sequence, totalCount nor the cursor that the next load reads.
C13_NoOwnerNoOp ==
    [][(targetUserId = NoUser /\ targetUserId' = NoUser /\ inflight = <<>>) =>
          UNCHANGED <<inflight, isLoading, isLoadingMore, error, measurements, totalCount, pageRef>>]_vars

NoDuplicates(m) == \A j, k \in 1..Len(m) : m[j].id = m[k].id => j = k

\* C14: a remove that succeeds remotely for an id that is not in the loaded sequence
\* resolves, sets no error and leaves the loaded sequence as it was.
C14_RemoveAbsentId ==
    [][\A i \in 1..Len(inflight) :
          (Settles(i, "delete", "ok") /\ ~HasId(measurements, inflight[i].arg.id)) =>
              /\ measurements' = measurements
              /\ error' = error
              /\ outcome' = [op |-> "delete", status |-> "resolved"]]_vars

\* the mount load filled a page, then a remove of an id that was not loaded
\* resolved: the page is intact, only totalCount went down
C14_Witness ==
    /\ outcome = [op |-> "delete", status |-> "resolved"]
    /\ inflight = <<>>
    /\ started = 2
    /\ Len(measurements) = Limit
    /\ NoDuplicates(measurements)
    /\ \A j \in 1..Len(measurements) : HasId(remote, measurements[j].id)
    /\ totalCount < Len(measurements)

\* the continuation of a reset load runs after the store's answer
ResetLoadSuccess(i) == Settles(i, "fetch", "ok") /\ inflight[i].reset

\* what a successful create does to the order of the loaded sequence
CreateKeepsNoOrder ==
    \A i \in 1..Len(inflight) : Settles(i, "insert", "ok") =>
        LET row == inflight[i].data[1]
        IN  /\ measurements' = <<row>> \o measurements
            /\ (/\ NewestFirst(measurements)
                /\ \A j \in 1..Len(measurements) : row.measured_at >= measurements[j].measured_at)
                   => NewestFirst(measurements')
            /\ (\E j \in 1..Len(measurements) : row.measured_at < measurements[j].measured_at)
                   => /\ ~NewestFirst(measurements')
                      /\ latestMeasurement' = row
                      /\ \E j \in 1..Len(measurements') :
                             measurements'[j].measured_at > latestMeasurement'.measured_at

ResetLoadRestoresOrder ==
    \A i \in 1..Len(inflight) : ResetLoadSuccess(i) => NewestFirst(measurements')

\* C15 (as stated): create puts the record at index 0 whatever its measured_at; the
\* sequence stays newest-first when the record is the newest, and is out of order,
\* with a latestMeasurement that is not the most recent, when it is backdated; an
\* out-of-order sequence stays out of order over every step that is not a
\* successful reset load, and a successful reset load leaves it newest-first.
C15_DisorderUntilReset ==
    [][/\ CreateKeepsNoOrder
       /\ ResetLoadRestoresOrder
       /\ (~NewestFirst(measurements) /\ ~\E i \in 1..Len(inflight) : ResetLoadSuccess(i))
             => ~NewestFirst(measurements')]_vars

\* C15 (amended): the same, but an out-of-order sequence stays out of order over
\* every step that is neither a successful reset load nor a successful remove.
C15_DisorderUntilResetOrRemove ==
    [][/\ CreateKeepsNoOrder
       /\ ResetLoadRestoresOrder
       /\ (/\ ~NewestFirst(measurements)
           /\ ~\E i \in 1..Len(inflight) : ResetLoadSuccess(i)
           /\ ~\E i \in 1..Len(inflight) : Settles(i, "delete", "ok"))
             => ~NewestFirst(measurements')]_vars

\* a backdated record was created on top of a loaded newer one
C15_Witness ==
    /\ outcome = [op |-> "insert", status |-> "resolved"]
    /\ Len(measurements) >= 2
    /\ measurements[1].id = nextId - 1
    /\ measurements[1].measured_at < measurements[2].measured_at
    /\ latestMeasurement = measurements[1]
    /\ ~NewestFirst(measurements)

\* C16: with autoFetch on, once every load has settled without an error after the
\* owner changed to B, the loaded sequence holds only B's records and totalCount is
\* the number of B's records in the remote store.
C16_StaleLoadDiscarded ==
    (autoFetch /\ targetUserId = "B" /\ inflight = <<>> /\ error = Null) =>
        /\ \A j \in 1..Len(measurements) : measurements[j].user_id = "B"
        /\ totalCount = Len(OwnerRows(remote, "B"))

\* C17: when every call has settled and the response processed last was that of a
\* successful refetch, the loaded sequence is the first page of the owner's rows in
\* the remote store and totalCount is their number.
C17_RefreshReconciles ==
    (/\ inflight = <<>>
     /\ outcome = [op |-> "fetch", status |-> "resolved"]
     /\ error = Null
     /\ pageRef >= 1) =>
        LET rows == OwnerRows(remote, targetUserId)
        IN  /\ measurements = Range(rows, 0, Limit - 1)
            /\ totalCount = Len(rows)

\* C18: after any sequence of calls that do not overlap, no two loaded records have
\* the same id and every loaded record exists in the remote store.
C18_ConsistentView ==
    inflight = <<>> =>
        /\ NoDuplicates(measurements)
        /\ \A j \in 1..Len(measurements) : HasId(remote, measurements[j].id)

\* C19: both chart transforms return an empty sequence, and do not throw, when the
\* measurements are null, undefined or an empty list, whatever the limit.
C19_EmptyInputEmptyChart ==
    (chartData.status # "idle" /\ chartArgs.measurements \in {JsNull, JsUndefined, JsArray(<<>>)}) =>
        chartData = Returned(<<>>)

C19_Witness ==
    /\ chartData.status = "returned"
    /\ chartArgs.measurements = JsNull
    /\ chartArgs.max = JsNumber(0 - 1)

AscendingByDate(points) ==
    \A i \in 1..Len(points) - 1 : points[i].date <= points[i + 1].date

\* C20: for every non-empty input the points that a chart transform returns are in
\* ascending order of date.
C20_ChartAscending ==
    (chartData.status # "idle" /\ ~NoLength(chartArgs.measurements)) =>
        /\ chartData.status = "returned"
        /\ AscendingByDate(chartData.points)

Abs(x) == IF x < 0 THEN 0 - x ELSE x

\* the input records of one calendar day, and their weights
RecordsOfDay(items, day) == SelectSeq(items, LAMBDA r : DayKey(r.measured_at) = day)

WeightsOf(rs) == [i \in 1..Len(rs) |-> rs[i].weight_kg]

CountsOf(points) == [i \in 1..Len(points) |-> points[i].count]

\* C21: in day-bucketed mode each output point stands for one calendar day, no two
\* points for the same day; its count is the number of input records of that day,
\* isAverage is true exactly when count > 1, and weight is the mean of those records'
\* weights rounded to the nearest tenth. With the default limit the counts add up to
\* the number of input records.
C21_DayBuckets ==
    (chartCalls = <<"byDay">> /\ ~NoLength(chartArgs.measurements)) =>
        LET items == chartArgs.measurements.items
            points == chartData.points
        IN  /\ chartData.status = "returned"
            /\ \A i \in 1..Len(points) :
                   LET same == RecordsOfDay(items, DayKey(points[i].date))
                       n == Len(same)
                   IN  /\ n >= 1
                       /\ points[i].count = n
                       /\ points[i].isAverage <=> (n > 1)
                       /\ 2 * Abs(points[i].weight * n - Sum(WeightsOf(same))) <= n
            /\ \A i, j \in 1..Len(points) :
                   DayKey(points[i].date) = DayKey(points[j].date) => i = j
            /\ chartArgs.max = JsNoNumber => Sum(CountsOf(points)) = Len(items)

\* two records of 70.0 and 71.0 on one day gave one point: 70.5, an average of 2
C21_Witness ==
    /\ chartCalls = <<"byDay">>
    /\ chartArgs.measurements = JsArray(<<[measured_at |-> 1, weight_kg |-> 710],
                                          [measured_at |-> 0, weight_kg |-> 700]>>)
    /\ Len(chartData.points) = 1
    /\ chartData.points[1].weight = 705
    /\ chartData.points[1].isAverage
    /\ chartData.points[1].count = 2

NewestFirstItems(items) ==
    \A i \in 1..Len(items) - 1 : items[i].measured_at >= items[i + 1].measured_at

DaysOf(items) == {DayKey(items[i].measured_at) : i \in 1..Len(items)}

\* the points are the buckets of the n most recent days of the input
MostRecentDays(points, items, n) ==
    /\ Len(points) = n
    /\ \A i \in 1..Len(points) :
           /\ DayKey(points[i].date) \in DaysOf(items)
           /\ Cardinality({d \in DaysOf(items) : d > DayKey(points[i].date)}) < n

\* C22: in day-bucketed mode, for a newest-first input over D days and a limit
\* N >= 0, the output is the buckets of the min(N, D) most recent days, never more
\* than N points.
C22_AtMostMaxDays ==
    (/\ chartCalls = <<"byDay">>
     /\ ~NoLength(chartArgs.measurements)
     /\ NewestFirstItems(chartArgs.measurements.items)
     /\ OrDefault(chartArgs.max) >= 0) =>
        LET items == chartArgs.measurements.items
            N == OrDefault(chartArgs.max)
        IN  /\ MostRecentDays(chartData.points, items, Min(N, Cardinality(DaysOf(items))))
            /\ Len(chartData.points) <= N

DistinctDays(items) ==
    \A i, j \in 1..Len(items) : DayKey(items[i].measured_at) = DayKey(items[j].measured_at) => i = j

WeightsOfPoints(points) == [i \in 1..Len(points) |-> points[i].weight]

\* C24: for a newest-first input whose records fall on distinct days and a limit
\* N >= 1, each transform returns one point per record for the N most recent
\* records, oldest first, with the record's weight; the day-bucketed points have
\* count 1 and are no averages. Both transforms therefore return the same weights.
C24_BucketsDegenerate ==
    (/\ Len(chartCalls) = 1
     /\ ~NoLength(chartArgs.measurements)
     /\ NewestFirstItems(chartArgs.measurements.items)
     /\ DistinctDays(chartArgs.measurements.items)
     /\ OrDefault(chartArgs.max) >= 1) =>
        LET items == chartArgs.measurements.items
            N == OrDefault(chartArgs.max)
            recent == Reverse(SubSeq(items, 1, Min(N, Len(items))))
        IN  /\ chartData.status = "returned"
            /\ WeightsOfPoints(chartData.points) = WeightsOf(recent)
            /\ \A i \in 1..Len(chartData.points) : chartData.points[i].date = recent[i].measured_at
            /\ chartCalls = <<"byDay">> =>
                   \A i \in 1..Len(chartData.points) :
                       chartData.points[i].count = 1 /\ ~chartData.points[i].isAverage

\* records on two days with different weights, limit 1: the newer record only
C24_Witness ==
    /\ Len(chartCalls) = 1
    /\ chartArgs.max = JsNumber(1)
    /\ chartArgs.measurements = JsArray(<<[measured_at |-> 2, weight_kg |-> 710],
                                          [measured_at |-> 1, weight_kg |-> 700]>>)
    /\ WeightsOfPoints(chartData.points) = <<710>>

\* a fetchMore, create or remove is issued or settled in this step (no reset load)
NoResetStep ==
    \/ Issues("insert") \/ Issues("delete")
    \/ Issues("fetch") /\ ~inflight'[Len(inflight')].reset
    \/ \E i \in 1..Len(inflight) :
          /\ inflight' = Remove(inflight, i)
          /\ inflight[i].op = "fetch" => ~inflight[i].reset

\* C25: the cursor changes only through loads: a step that issues or settles a
\* fetchMore, a create or a remove never lowers it; a successful fetchMore raises it
\* by exactly one page, a failed fetchMore leaves it as it was, and neither issuing
\* nor settling a create or a remove changes it.
C25_CursorFrame ==
    [][/\ NoResetStep => pageRef' >= pageRef
       /\ \A i \in 1..Len(inflight) :
              /\ (Settles(i, "fetch", "ok") /\ ~inflight[i].reset) => pageRef' = pageRef + 1
              /\ (Settles(i, "fetch", "sent") /\ ~inflight[i].reset) => pageRef' = pageRef
              /\ (inflight[i].op \in {"insert", "delete"} /\ inflight' = Remove(inflight, i)) =>
                     pageRef' = pageRef
       /\ (Issues("insert") \/ Issues("delete")) => pageRef' = pageRef]_vars

\* A store that does not change, calls that do not overlap, and loads that may fail:
\* the load on mount, then refetch and fetchMore calls, each awaited before the next.
NextRetry ==
    \/ inflight = <<>> /\ targetUserId = NoUser /\ ChangeUser("A") /\ UNCHANGED <<chartVars, authVars>>
    \/ inflight = <<>> /\ targetUserId # NoUser /\ Refetch /\ UNCHANGED <<chartVars, authVars>>
    \/ inflight = <<>> /\ targetUserId # NoUser /\ FetchMore /\ UNCHANGED <<chartVars, authVars>>
    \/ \E i \in 1..Len(inflight) : ServeFetch(i) /\ UNCHANGED <<chartVars, authVars>>
    \/ \E i \in 1..Len(inflight) : FetchSuccess(i) /\ UNCHANGED <<chartVars, authVars>>
    \/ \E i \in 1..Len(inflight), msg \in ErrMessages : FetchFailure(i, msg) /\ UNCHANGED <<chartVars, authVars>>

SpecRetry == InitSeq /\ [][NextRetry]_vars

\* C26: over a store that does not change and with calls that do not overlap, also
\* after a refetch or a mount load that failed, every successful fetchMore fetched
\* the rows that follow the loaded ones in the owner's newest-first rows and appends
\* no record that is already loaded.
C26_FailedRefreshKeepsCursor ==
    [][\A i \in 1..Len(inflight) : (Settles(i, "fetch", "ok") /\ ~inflight[i].reset) =>
          LET rows == OwnerRows(remote, targetUserId)
              n == Len(measurements)
          IN  /\ inflight[i].data = Range(rows, n, n + Limit - 1)
              /\ \A j \in 1..Len(inflight[i].data) : ~HasId(measurements, inflight[i].data[j].id)]_vars

\* The history page's paging: every remote call succeeds, the store changes only
\* through this hook's creates and removes, calls do not overlap, and fetchMore is
\* called only while hasMore is true (the load-more button is shown only then).
NextPaging ==
    \/ inflight = <<>> /\ targetUserId = NoUser /\ ChangeUser("A") /\ UNCHANGED <<chartVars, authVars>>
    \/ inflight = <<>> /\ targetUserId # NoUser /\ hasMore /\ FetchMore /\ UNCHANGED <<chartVars, authVars>>
    \/ inflight = <<>> /\ targetUserId # NoUser /\ \E at \in Timestamps : AddMeasurement(at) /\ UNCHANGED <<chartVars, authVars>>
    \/ inflight = <<>> /\ targetUserId # NoUser /\ \E id \in 1..MaxId : DeleteMeasurement(id) /\ UNCHANGED <<chartVars, authVars>>
    \/ \E i \in 1..Len(inflight) : ServeFetch(i) /\ UNCHANGED <<chartVars, authVars>>
    \/ \E i \in 1..Len(inflight), k \in 1..MaxId : ServeInsert(i, k) /\ UNCHANGED <<chartVars, authVars>>
    \/ \E i \in 1..Len(inflight) : ServeDelete(i) /\ UNCHANGED <<chartVars, authVars>>
    \/ \E i \in 1..Len(inflight) : FetchSuccess(i) /\ UNCHANGED <<chartVars, authVars>>
    \/ \E i \in 1..Len(inflight) : AddSuccess(i) /\ UNCHANGED <<chartVars, authVars>>
    \/ \E i \in 1..Len(inflight) : DeleteSuccess(i) /\ UNCHANGED <<chartVars, authVars>>

SpecPaging == InitSeq /\ [][NextPaging]_vars

\* C27: paging can terminate with everything loaded: once the mount load and every
\* later call have settled, while hasMore is true the page that the next fetchMore
\* reads is not empty (otherwise fetchMore calls change nothing and hasMore stays
\* true for ever), and when hasMore is false every record of the owner in the remote
\* store is in the loaded sequence.
C27_PagingTerminates ==
    (inflight = <<>> /\ pageRef >= 1) =>
        LET rows == OwnerRows(remote, targetUserId)
        IN  /\ hasMore => FromOf(pageRef) < Len(rows)
            /\ ~hasMore => \A j \in 1..Len(rows) : HasId(measurements, rows[j].id)

\* C28: (state-cursor version) the continuation of a successful fetchMore and the
\* effects of the render that follows it issue no load: the call leaves the
\* in-flight set, the fetched page is appended and the cursor is one page further.
C28_LoadMoreNoAutoReset ==
    [][\A i \in 1..Len(inflight) : (SettlesLoad(i) /\ ~inflight[i].reset) =>
          /\ inflight' = Remove(inflight, i)
          /\ ~isLoading'
          /\ measurements' = measurements \o inflight[i].data
          /\ page' = page + 1]_vars

\* ------------------------------------------------------- AuthProvider
\* the sessions the auth service can report: a signed-in user or none
Sessions == Users \cup {Null}

\* every render of the provider renders the PrivateRoute below it
AuthRender == routeView' = PrivateRoute(user' # Null, loading')

\* fetchProfile(userId) gives the profile row of that user, or null on an error
ProfileOf(uid, ok) == IF ok THEN uid ELSE Null

\* getSession().then(...) up to its await: setUser, then fetchProfile or setLoading(false)
GetSessionThen(i, s) ==
    /\ pendingAuth[i].kind = "getSession"
    /\ user' = s
    /\ IF s # Null
       THEN /\ pendingAuth' = [pendingAuth EXCEPT ![i] = Pending("session", s)]
            /\ UNCHANGED loading
       ELSE /\ pendingAuth' = Remove(pendingAuth, i)
            /\ loading' = FALSE
    /\ UNCHANGED <<session, profile, authEvents>>
    /\ AuthRender

\* the onAuthStateChange callback up to its await
OnAuthStateChange(s) ==
    /\ authEvents < MaxAuthEvents
    /\ authEvents' = authEvents + 1
    /\ user' = s
    /\ IF s # Null
       THEN /\ pendingAuth' = Append(pendingAuth, Pending("callback", s))
            /\ UNCHANGED <<profile, loading>>
       ELSE /\ profile' = Null
            /\ loading' = FALSE
            /\ UNCHANGED pendingAuth
    /\ UNCHANGED session
    /\ AuthRender

\* the rest of the getSession continuation or of the auth callback, once
\* fetchProfile has answered: setProfile(prof); setLoading(false)
FetchProfileThen(i, ok) ==
    /\ pendingAuth[i].kind \in {"session", "callback"}
    /\ profile' = ProfileOf(pendingAuth[i].uid, ok)
    /\ loading' = FALSE
    /\ pendingAuth' = Remove(pendingAuth, i)
    /\ UNCHANGED <<session, user, authEvents>>
    /\ AuthRender

\* refreshProfile() up to its await
RefreshProfile ==
    /\ authEvents < MaxAuthEvents
    /\ authEvents' = authEvents + 1
    /\ pendingAuth' = (IF user = Null THEN pendingAuth
                       ELSE Append(pendingAuth, Pending("refresh", user)))
    /\ UNCHANGED <<session, user, profile, loading>>
    /\ AuthRender

\* the rest of refreshProfile: setProfile(prof)
RefreshProfileThen(i, ok) ==
    /\ pendingAuth[i].kind = "refresh"
    /\ profile' = ProfileOf(pendingAuth[i].uid, ok)
    /\ pendingAuth' = Remove(pendingAuth, i)
    /\ UNCHANGED <<session, user, loading, authEvents>>
    /\ AuthRender

InitAuth ==
    /\ remote = <<>> /\ nextId = 1
    /\ targetUserId = NoUser
    /\ autoFetch = TRUE
    /\ HookInit

NextAuth ==
    \/ \E i \in 1..Len(pendingAuth), s \in Sessions : GetSessionThen(i, s) /\ UNCHANGED <<hookVars, chartVars>>
    \/ \E s \in Sessions : OnAuthStateChange(s) /\ UNCHANGED <<hookVars, chartVars>>
    \/ \E i \in 1..Len(pendingAuth), ok \in BOOLEAN : FetchProfileThen(i, ok) /\ UNCHANGED <<hookVars, chartVars>>
    \/ RefreshProfile /\ UNCHANGED <<hookVars, chartVars>>
    \/ \E i \in 1..Len(pendingAuth), ok \in BOOLEAN : RefreshProfileThen(i, ok) /\ UNCHANGED <<hookVars, chartVars>>

SpecAuth == InitAuth /\ [][NextAuth]_vars

\* ------------------------ AuthProvider, the version with a profile effect
\* the profile effect (dependency: session) after a render with session s and
\* profile prof: the previous run is cleaned up (mounted = false), then loadUserData
LoadUserData(pending, s, prof) ==
    LET cleaned == [j \in 1..Len(pending) |->
                        IF pending[j].kind = "effect"
                        THEN [pending[j] EXCEPT !.mounted = FALSE] ELSE pending[j]]
    IN  IF s # Null /\ (prof = Null \/ prof # s)
        THEN Append(cleaned, Pending("effect", s))
        ELSE cleaned

\* the effect runs when setSession stored another value: every session object
\* the auth service hands over is a new one, null is null
SessionEffect(pending, s, prof) ==
    IF s = Null /\ session = Null THEN pending ELSE LoadUserData(pending, s, prof)

\* getSession().then(...): setSession, setUser, setLoading(false) without a session
GetSessionThenSession(i, s) ==
    /\ pendingAuth[i].kind = "getSession"
    /\ session' = s
    /\ user' = s
    /\ loading' = (IF s = Null THEN FALSE ELSE loading)
    /\ pendingAuth' = SessionEffect(Remove(pendingAuth, i), s, profile)
    /\ UNCHANGED <<profile, authEvents>>
    /\ AuthRender

\* the onAuthStateChange callback
OnAuthStateChangeSession(s) ==
    /\ authEvents < MaxAuthEvents
    /\ authEvents' = authEvents + 1
    /\ session' = s
    /\ user' = s
    /\ profile' = (IF s = Null THEN Null ELSE profile)
    /\ loading' = (IF s = Null THEN FALSE ELSE loading)
    /\ pendingAuth' = SessionEffect(pendingAuth, s, profile')
    /\ AuthRender

\* the rest of loadUserData once fetchProfile has answered
LoadUserDataThen(i, ok) ==
    /\ pendingAuth[i].kind = "effect"
    /\ IF pendingAuth[i].mounted
       THEN profile' = ProfileOf(pendingAuth[i].uid, ok) /\ loading' = FALSE
       ELSE UNCHANGED <<profile, loading>>
    /\ pendingAuth' = Remove(pendingAuth, i)
    /\ UNCHANGED <<session, user, authEvents>>
    /\ AuthRender

NextAuthSession ==
    \/ \E i \in 1..Len(pendingAuth), s \in Sessions : GetSessionThenSession(i, s) /\ UNCHANGED <<hookVars, chartVars>>
    \/ \E s \in Sessions : OnAuthStateChangeSession(s) /\ UNCHANGED <<hookVars, chartVars>>
    \/ \E i \in 1..Len(pendingAuth), ok \in BOOLEAN : LoadUserDataThen(i, ok) /\ UNCHANGED <<hookVars, chartVars>>
    \/ RefreshProfile /\ UNCHANGED <<hookVars, chartVars>>
    \/ \E i \in 1..Len(pendingAuth), ok \in BOOLEAN : RefreshProfileThen(i, ok) /\ UNCHANGED <<hookVars, chartVars>>

SpecAuthSession == InitAuth /\ [][NextAuthSession]_vars

\* C29: PrivateRoute shows the protected children only while loading is false and
\* user is not null, shows the spinner (neither children nor redirect) while
\* loading is true, and redirects to /login when loading is false and user is null.
C29_ProtectedOnlyWithUser ==
    /\ routeView = "children" => (~loading /\ user # Null)
    /\ loading => routeView = "spinner"
    /\ (~loading /\ user = Null) => routeView = "navigate"

\* a user signed in, their profile arrived, and the protected page is shown
C29_Witness ==
    /\ routeView = "children"
    /\ user = "A"
    /\ profile = "A"
    /\ authEvents >= 1
    /\ pendingAuth = <<>>

\* C30: whenever no auth continuation and no profile fetch is pending, a null user
\* has a null profile and a profile that is not null is the profile of the user.
C30_ProfileOfUser ==
    pendingAuth = <<>> =>
        /\ user = Null => profile = Null
        /\ profile # Null => profile = user

====
